---- MODULE Spec2Model ----
(***************************************************************************)
(* Model of the MCP example clients (client.py, langchain_mcp_client.py)   *)
(* and of the terminal server (terminal_server.py).                        *)
(*                                                                         *)
(* Spec        the two client programs: start-up, connection to the child  *)
(*             process, interactive loop, query cycle, release.            *)
(* SpecSchema  clean_schema applied to bounded schemas.                    *)
(* SpecTools   convert_mcp_tools_to_gemini applied to bounded tool lists.  *)
(* SpecCmd     run_command serving successive requests.                    *)
(***************************************************************************)
EXTENDS Integers, Sequences, FiniteSets, TLC

VARIABLES
    program,               \* which script runs: "client" or "langchain"
    apiKey,                \* the API key is present in the environment
    argGiven,              \* sys.argv carries the server script path
    pc,                    \* control position of the program
    outcome,               \* how the program ended
    genai_client,          \* the model API client object has been built
    exit_stack,            \* contexts entered so far, innermost last
    acquired,              \* connection resources entered at some point
    released,              \* resource -> number of times it was released
    initialized,           \* session.initialize() has completed
    listed,                \* session.list_tools() has completed
    function_declarations, \* self.function_declarations / agent tools
    rawLine,               \* the line input() returned last
    query,                 \* the stripped line
    linesRead,             \* number of lines read so far
    parts,                 \* parts of the first response, in loop order
    idx,                   \* index of the next part to inspect
    final_text,            \* the output accumulator
    contents,              \* `contents` of the latest request to the model
    modelCalls,            \* model requests made for the current line
    toolCalls,             \* call_tool requests made for the current line
    lastTool,              \* outcome of the latest session.call_tool
    toolRaised,            \* some call_tool raised during this query
    chained,               \* some reply to a resubmission was a tool call
    pqResult,              \* how the latest process_query ended
    schema,                \* clean_schema: the dict object passed in
    cleaned,               \* clean_schema: the value returned
    produced,              \* the Tool Descriptors as the child produced them
    mcp_tools,             \* the Tool Descriptor objects held by the client
    gemini_tools,          \* convert_mcp_tools_to_gemini: the list returned
    cmdPc,                 \* run_command: position of the server
    command,               \* run_command: the command text
    execution,             \* run_command: what subprocess.run did
    cmdResult              \* run_command: what the tool handed back

clientVars == <<program, apiKey, argGiven, pc, outcome, genai_client,
                exit_stack, acquired, released, initialized, listed,
                function_declarations, rawLine, query, linesRead, parts, idx,
                final_text, contents, modelCalls, toolCalls, lastTool,
                toolRaised, chained, pqResult>>
schemaVars == <<schema, cleaned>>
toolVars == <<produced, mcp_tools, gemini_tools>>
cmdVars == <<cmdPc, command, execution, cmdResult>>
vars == <<clientVars, schemaVars, toolVars, cmdVars>>

(***************************************************************************)
(* Bounds of the model.                                                    *)
(***************************************************************************)
MaxLines == 2
MaxCandidates == 1
MaxParts == 2
MaxAgentToolCalls == 2
MaxDepth == 3
MaxTools == 2
ToolSchemaDepth == 1

(***************************************************************************)
(* Python values.                                                          *)
(***************************************************************************)
None == [t |-> "NoneType", v |-> ""]
Str(s) == [t |-> "str", v |-> s]
Truthy(x) == x.t # "NoneType" /\ ~(x.t = "str" /\ x.v = "")

RECURSIVE Flatten(_)
Flatten(ss) == IF ss = <<>> THEN <<>> ELSE Head(ss) \o Flatten(Tail(ss))

SeqsUpTo(S, n) == UNION {[1..k -> S] : k \in 0..n}
(***************************************************************************)
(* JSON-schema-like values.  A node is a scalar or a dict; `m` is the      *)
(* dict's mapping from keys to nodes.                                      *)
(***************************************************************************)
Scalar == [k |-> "s", m |-> <<>>]
Dict(f) == [k |-> "d", m |-> f]
IsDict(x) == x.k = "d"

Keys == {"title", "properties", "items", "command"}

\* dict.pop(key, None)
Pop(f, key) == [x \in (DOMAIN f) \ {key} |-> f[x]]

RECURSIVE Schemas(_)
Schemas(d) ==
    IF d = 0 THEN {Scalar}
    ELSE LET V == Schemas(d - 1)
         IN  {Scalar, Dict(<<>>)}
             \cup {Dict(key :> v) : key \in Keys, v \in V}
             \cup {Dict(("title" :> Scalar) @@ (key :> v)) :
                       key \in Keys \ {"title"}, v \in V}

RECURSIVE clean_schema(_)
clean_schema(s) ==
    IF IsDict(s)
    THEN LET m1 == Pop(s.m, "title")
             m2 == IF "properties" \in DOMAIN m1 /\ IsDict(m1["properties"])
                   THEN [m1 EXCEPT !["properties"] =
                            Dict([key \in DOMAIN m1["properties"].m |->
                                     clean_schema(m1["properties"].m[key])])]
                   ELSE m1
         IN  Dict(m2)
    ELSE s

(***************************************************************************)
(* Tool Descriptors and Function Declarations.                             *)
(***************************************************************************)
ToolNames == {"run_command", "read_file"}
Descriptions == {"", "Executa um comando"}

FunctionDeclaration(name, description, parameters) ==
    [name |-> name, description |-> description, parameters |-> parameters]

Tool(function_declarations_) == [function_declarations |-> function_declarations_]

\* one iteration of the loop body, lines 204-214
GeminiToolOf(tool) ==
    Tool(<<FunctionDeclaration(tool.name, tool.description,
                               clean_schema(tool.inputSchema))>>)

\* variant: the new entry is put in front
PrependTool(gemini_tools_, gemini_tool) == <<gemini_tool>> \o gemini_tools_

\* gemini_tools.append(gemini_tool)
AppendTool(gemini_tools_, gemini_tool) == Append(gemini_tools_, gemini_tool)

RECURSIVE ConvertLoop(_, _)
ConvertLoop(rest, gemini_tools_) ==
    IF rest = <<>> THEN gemini_tools_
    ELSE ConvertLoop(Tail(rest), AppendTool(gemini_tools_, GeminiToolOf(Head(rest))))

convert_mcp_tools_to_gemini(tools) == ConvertLoop(tools, <<>>)

\* clean_schema works on the descriptor's own dict object: after the call
\* tool.inputSchema is the cleaned dict
ToolsAfterConvert(tools) ==
    [i \in 1..Len(tools) |->
        [tools[i] EXCEPT !.inputSchema = clean_schema(tools[i].inputSchema)]]
(***************************************************************************)
(* Input lines, as sequences of characters.                                *)
(***************************************************************************)
Whitespace == {" ", "\t"}

InputLines ==
    { <<>>,
      <<" ">>,
      <<"q", "u", "i", "t">>,
      <<"Q", "U", "I", "T">>,
      <<"Q", "u", "i", "T">>,
      <<" ", " ", "q", "u", "i", "t", " ", " ">>,
      <<"\t", "Q", "u", "i", "t", " ">>,
      <<"q", "u", "i", "t", "s">>,
      <<"q", "u", " ", "i", "t">>,
      <<" ", "l", "s">> }

\* str.strip()
RECURSIVE LStrip(_)
LStrip(s) == IF s # <<>> /\ Head(s) \in Whitespace THEN LStrip(Tail(s)) ELSE s

RECURSIVE RStrip(_)
RStrip(s) ==
    IF s # <<>> /\ s[Len(s)] \in Whitespace
    THEN RStrip(SubSeq(s, 1, Len(s) - 1))
    ELSE s

Strip(s) == RStrip(LStrip(s))

\* str.lower()
LowerChar(c) ==
    CASE c = "Q" -> "q"
      [] c = "U" -> "u"
      [] c = "I" -> "i"
      [] c = "T" -> "t"
      [] c = "L" -> "l"
      [] c = "S" -> "s"
      [] OTHER -> c

Lower(s) == [i \in 1..Len(s) |-> LowerChar(s[i])]

\* variant: the comparison without lower()
IsQuitCommandCaseSensitive(q) == q = <<"q", "u", "i", "t">>

\* query.lower() == 'quit'
IsQuitCommand(q) == Lower(q) = <<"q", "u", "i", "t">>

(***************************************************************************)
(* Model responses and conversation turns.                                 *)
(***************************************************************************)
Texts == {"texto"}

TextPart(text) == [text |-> Str(text), function_call |-> None]
FunctionCallPart(name) == [text |-> None, function_call |-> [t |-> "FunctionCall", v |-> name]]

Parts == {TextPart(x) : x \in Texts} \cup {FunctionCallPart(n) : n \in ToolNames}

\* response.candidates: each candidate is the sequence of its content parts
Responses ==
    UNION {[1..c -> SeqsUpTo(Parts, MaxParts)] : c \in 1..MaxCandidates}

\* the order in which the two nested for loops visit the parts, lines 98-100
PartsInOrder(candidates) == Flatten(candidates)

\* types.Content(role='user', parts=[types.Part.from_text(text=query)])
UserContent(q) == [role |-> "user", parts |-> <<[text |-> q]>>]

\* types.Content(role='tool', parts=[Part.from_function_response(...)])
ToolContent(name, function_response) ==
    [role |-> "tool",
     parts |-> <<[function_response |-> [name |-> name, response |-> function_response]]>>]

\* what session.call_tool can do: return a result or raise
Exceptions == {[type |-> "McpError", args |-> <<"falhou">>],
               [type |-> "RuntimeError", args |-> <<>>]}
ToolOutcomes ==
    {[kind |-> "result", content |-> "saida", exc |-> [type |-> "", args |-> <<>>]]}
    \cup {[kind |-> "raise", content |-> "", exc |-> e] : e \in Exceptions}

NoTool == [kind |-> "none", content |-> "", exc |-> [type |-> "", args |-> <<>>]]

\* str(e)
ExcStr(e) == IF Len(e.args) = 0 THEN "" ELSE e.args[1]

\* lines 112-116
FunctionResponse(o) ==
    IF o.kind = "result"
    THEN [key |-> "result", value |-> o.content]
    ELSE [key |-> "error", value |-> ExcStr(o.exc)]

\* variant: the tool-call part is left out of the resubmitted turns
ResubmitContentsNoCall(user_prompt_content, function_call_part, function_response_content) ==
    <<user_prompt_content, function_response_content>>

\* the contents list of the second generate_content call, lines 133-137
ResubmitContents(user_prompt_content, function_call_part, function_response_content) ==
    <<user_prompt_content, function_call_part, function_response_content>>

\* "\n".join(final_text): raises TypeError unless every item is a str
JoinRaises(items) == \E i \in 1..Len(items) : items[i].t # "str"
(***************************************************************************)
(* The client programs.                                                    *)
(***************************************************************************)
Resources == {"stdio", "session"}

\* a realistic descriptor of the terminal server's tool
RunCommandSchema ==
    Dict(("title" :> Scalar) @@
         ("properties" :> Dict("command" :> Dict("title" :> Scalar))))

ServerToolLists ==
    { <<>>,
      <<[name |-> "run_command", description |-> "Executa um comando",
         inputSchema |-> RunCommandSchema]>>,
      <<[name |-> "run_command", description |-> "Executa um comando",
         inputSchema |-> RunCommandSchema],
        [name |-> "read_file", description |-> "",
         inputSchema |-> Dict("items" :> Dict("title" :> Scalar))]>> }

\* variant: the tools are listed before the handshake
ConnectOrderListFirst == <<"enter_stdio", "enter_session", "list_tools", "initialize">>

\* statement order of connect_to_server
ConnectOrder == <<"enter_stdio", "enter_session", "initialize", "list_tools">>

\* statement order of run_agent up to the loop
RunAgentOrder == <<"enter_stdio", "enter_session", "initialize", "list_tools">>

Order == IF program = "client" THEN ConnectOrder ELSE RunAgentOrder

After(step) ==
    LET i == CHOOSE j \in 1..Len(Order) : Order[j] = step
    IN  IF i < Len(Order) THEN Order[i + 1] ELSE "prompt"

\* variant: main without try/finally, an exception ends the program at once
OnExceptionNoFinally(prog) == IF prog = "client" THEN "exited" ELSE "exit_ctx"

\* where control goes when an exception leaves the try body of main
\* (finally: cleanup) or the body of the async with blocks of run_agent
OnException(prog) == IF prog = "client" THEN "cleanup" ELSE "exit_ctx"

\* where control goes when the loop ends with break
AfterLoop(prog) == IF prog = "client" THEN "cleanup" ELSE "exit_ctx"

Raise ==
    /\ pc' = OnException(program)
    /\ outcome' = "exception"

Count(stack, r) == Cardinality({i \in 1..Len(stack) : stack[i] = r})

\* AsyncExitStack.aclose() / leaving the nested async with blocks
ReleaseAll ==
    /\ released' = [r \in Resources |-> released[r] + Count(exit_stack, r)]
    /\ exit_stack' = <<>>

queryVars == <<rawLine, query, linesRead, parts, idx, final_text, contents,
               modelCalls, toolCalls, lastTool, toolRaised, chained, pqResult>>
connVars == <<exit_stack, acquired, released, initialized, listed,
              function_declarations>>
otherVars == <<schemaVars, gemini_tools, cmdVars>>

ClientInit ==
    /\ program \in {"client", "langchain"}
    /\ apiKey \in BOOLEAN
    /\ argGiven \in BOOLEAN
    /\ pc = IF program = "client" THEN "main" ELSE "llm"
    /\ outcome = "running"
    /\ genai_client = FALSE
    /\ exit_stack = <<>>
    /\ acquired = {}
    /\ released = [r \in Resources |-> 0]
    /\ initialized = FALSE
    /\ listed = FALSE
    /\ function_declarations = <<>>
    /\ rawLine = <<>>
    /\ query = <<>>
    /\ linesRead = 0
    /\ parts = <<>>
    /\ idx = 1
    /\ final_text = <<>>
    /\ contents = <<>>
    /\ modelCalls = 0
    /\ toolCalls = 0
    /\ lastTool = NoTool
    /\ toolRaised = FALSE
    /\ chained = FALSE
    /\ pqResult = "none"

\* client.py main: the argument check
MainCheckArgs ==
    /\ program = "client" /\ pc = "main"
    /\ IF argGiven
       THEN pc' = "construct" /\ UNCHANGED outcome
       ELSE pc' = "exited" /\ outcome' = "exit_1"
    /\ UNCHANGED <<program, apiKey, argGiven, genai_client, connVars,
                   queryVars, toolVars, otherVars>>

\* MCPClient.__init__, called outside the try of main
MCPClientInit ==
    /\ program = "client" /\ pc = "construct"
    /\ IF apiKey
       THEN pc' = Order[1] /\ genai_client' = TRUE /\ UNCHANGED outcome
       ELSE pc' = "exited" /\ outcome' = "ValueError" /\ UNCHANGED genai_client
    /\ UNCHANGED <<program, apiKey, argGiven, connVars, queryVars, toolVars,
                   otherVars>>

\* langchain_mcp_client.py, module level: the key is handed to the LLM
\* wrapper as os.getenv returned it; the script itself does not test it, and
\* whether the wrapper's constructor rejects a missing key is decided
\* outside this repository
BuildLLM ==
    /\ program = "langchain" /\ pc = "llm"
    /\ \E accepted \in BOOLEAN :
          IF apiKey \/ accepted
          THEN pc' = "check_args" /\ genai_client' = TRUE /\ UNCHANGED outcome
          ELSE pc' = "exited" /\ outcome' = "credentials_error"
               /\ UNCHANGED genai_client
    /\ UNCHANGED <<program, apiKey, argGiven, connVars, queryVars, toolVars,
                   otherVars>>

\* langchain_mcp_client.py, module level: the argument check
ScriptCheckArgs ==
    /\ program = "langchain" /\ pc = "check_args"
    /\ IF argGiven
       THEN pc' = Order[1] /\ UNCHANGED outcome
       ELSE pc' = "exited" /\ outcome' = "exit_1"
    /\ UNCHANGED <<program, apiKey, argGiven, genai_client, connVars,
                   queryVars, toolVars, otherVars>>

\* stdio_client(server_params) entered: the child process is launched
EnterStdio ==
    /\ pc = "enter_stdio"
    /\ \E ok \in BOOLEAN :
          IF ok
          THEN /\ exit_stack' = Append(exit_stack, "stdio")
               /\ acquired' = acquired \cup {"stdio"}
               /\ pc' = After("enter_stdio")
               /\ UNCHANGED outcome
          ELSE Raise /\ UNCHANGED <<exit_stack, acquired>>
    /\ UNCHANGED <<program, apiKey, argGiven, genai_client, released,
                   initialized, listed, function_declarations, queryVars,
                   toolVars, otherVars>>

\* ClientSession(read, write) entered
EnterSession ==
    /\ pc = "enter_session"
    /\ \E ok \in BOOLEAN :
          IF ok
          THEN /\ exit_stack' = Append(exit_stack, "session")
               /\ acquired' = acquired \cup {"session"}
               /\ pc' = After("enter_session")
               /\ UNCHANGED outcome
          ELSE Raise /\ UNCHANGED <<exit_stack, acquired>>
    /\ UNCHANGED <<program, apiKey, argGiven, genai_client, released,
                   initialized, listed, function_declarations, queryVars,
                   toolVars, otherVars>>

\* await session.initialize()
Initialize ==
    /\ pc = "initialize"
    /\ \E ok \in BOOLEAN :
          IF ok
          THEN initialized' = TRUE /\ pc' = After("initialize") /\ UNCHANGED outcome
          ELSE Raise /\ UNCHANGED initialized
    /\ UNCHANGED <<program, apiKey, argGiven, genai_client, exit_stack,
                   acquired, released, listed, function_declarations,
                   queryVars, toolVars, otherVars>>

\* await session.list_tools() and the conversion of the tools
\* (load_mcp_tools and create_react_agent in the langchain script)
ListTools ==
    /\ pc = "list_tools"
    /\ \/ \E tools \in ServerToolLists :
             /\ listed' = TRUE
             /\ produced' = tools
             /\ IF program = "client"
                THEN /\ function_declarations' = convert_mcp_tools_to_gemini(tools)
                     /\ mcp_tools' = ToolsAfterConvert(tools)
                ELSE /\ function_declarations' = [i \in 1..Len(tools) |-> tools[i].name]
                     /\ mcp_tools' = tools
             /\ pc' = After("list_tools")
             /\ UNCHANGED outcome
       \/ Raise /\ UNCHANGED <<listed, produced, mcp_tools, function_declarations>>
    /\ UNCHANGED <<program, apiKey, argGiven, genai_client, exit_stack,
                   acquired, released, initialized, queryVars, otherVars>>
startVars == <<program, apiKey, argGiven, genai_client>>

\* query = input(...).strip(); if query.lower() == 'quit': break
ReadLine ==
    /\ pc = "prompt"
    /\ linesRead < MaxLines
    /\ \E line \in InputLines :
          /\ rawLine' = line
          /\ query' = Strip(line)
          /\ pc' = IF IsQuitCommand(Strip(line))
                   THEN AfterLoop(program)
                   ELSE IF program = "client" THEN "dispatch" ELSE "ainvoke"
    /\ linesRead' = linesRead + 1
    /\ parts' = <<>> /\ idx' = 1 /\ final_text' = <<>> /\ contents' = <<>>
    /\ modelCalls' = 0 /\ toolCalls' = 0 /\ lastTool' = NoTool
    /\ toolRaised' = FALSE /\ chained' = FALSE /\ pqResult' = "none"
    /\ UNCHANGED <<startVars, outcome, connVars, toolVars, otherVars>>

\* input() raises EOFError: standard input is closed
ReadEOF ==
    /\ pc = "prompt"
    /\ Raise
    /\ UNCHANGED <<startVars, connVars, queryVars, toolVars, otherVars>>

\* process_query, lines 79-95: the first request to the model
Dispatch ==
    /\ program = "client" /\ pc = "dispatch"
    /\ \E candidates \in Responses :
          parts' = PartsInOrder(candidates)
    /\ contents' = <<UserContent(query)>>
    /\ modelCalls' = modelCalls + 1
    /\ idx' = 1
    /\ final_text' = <<>>
    /\ pc' = "parts"
    /\ UNCHANGED <<startVars, outcome, connVars, rawLine, query, linesRead,
                   toolCalls, lastTool, toolRaised, chained, pqResult,
                   toolVars, otherVars>>

\* lines 145-147: a part without function_call
InspectText ==
    /\ program = "client" /\ pc = "parts"
    /\ idx <= Len(parts)
    /\ ~Truthy(parts[idx].function_call)
    /\ final_text' = Append(final_text, parts[idx].text)
    /\ idx' = idx + 1
    /\ UNCHANGED <<startVars, pc, outcome, connVars, rawLine, query,
                   linesRead, parts, contents, modelCalls, toolCalls,
                   lastTool, toolRaised, chained, pqResult, toolVars,
                   otherVars>>

\* lines 102-144: a part with function_call: the tool is invoked, its
\* result or error is resubmitted, the text of the reply's first part is kept
ExecuteTool ==
    /\ program = "client" /\ pc = "parts"
    /\ idx <= Len(parts)
    /\ Truthy(parts[idx].function_call)
    /\ \E o \in ToolOutcomes, reply \in Parts :
          LET function_call_part == parts[idx]
              tool_name == function_call_part.function_call.v
              function_response_content == ToolContent(tool_name, FunctionResponse(o))
          IN  /\ lastTool' = o
              /\ toolRaised' = (toolRaised \/ o.kind = "raise")
              /\ contents' = ResubmitContents(UserContent(query),
                                              function_call_part,
                                              function_response_content)
              /\ chained' = (chained \/ Truthy(reply.function_call))
              /\ final_text' = Append(final_text, reply.text)
    /\ toolCalls' = toolCalls + 1
    /\ modelCalls' = modelCalls + 1
    /\ idx' = idx + 1
    /\ UNCHANGED <<startVars, pc, outcome, connVars, rawLine, query,
                   linesRead, parts, pqResult, toolVars, otherVars>>

\* line 150 and lines 163-164: the join, then back to the prompt
Return ==
    /\ program = "client" /\ pc = "parts"
    /\ idx > Len(parts)
    /\ IF JoinRaises(final_text)
       THEN pqResult' = "TypeError" /\ Raise
       ELSE pqResult' = "returned" /\ pc' = "prompt" /\ UNCHANGED outcome
    /\ UNCHANGED <<startVars, connVars, rawLine, query, linesRead, parts, idx,
                   final_text, contents, modelCalls, toolCalls, lastTool,
                   toolRaised, chained, toolVars, otherVars>>

\* langchain script, lines 127-134: the agent answers the query, calling
\* tools through the session as it sees fit, or raises
AInvoke ==
    /\ program = "langchain" /\ pc = "ainvoke"
    /\ contents' = <<UserContent(query)>>
    /\ modelCalls' = modelCalls + 1
    /\ \E n \in 0..MaxAgentToolCalls : toolCalls' = toolCalls + n
    /\ \/ pqResult' = "returned" /\ pc' = "prompt" /\ UNCHANGED outcome
       \/ pqResult' = "exception" /\ Raise
    /\ UNCHANGED <<startVars, connVars, rawLine, query, linesRead, parts, idx,
                   final_text, lastTool, toolRaised, chained, toolVars,
                   otherVars>>

\* client.py main, finally: await client.cleanup()
Cleanup ==
    /\ program = "client" /\ pc = "cleanup"
    /\ ReleaseAll
    /\ pc' = "exited"
    /\ outcome' = IF outcome = "running" THEN "ok" ELSE outcome
    /\ UNCHANGED <<startVars, acquired, initialized, listed,
                   function_declarations, queryVars, toolVars, otherVars>>

\* run_agent: control leaves the two async with blocks
ExitContexts ==
    /\ program = "langchain" /\ pc = "exit_ctx"
    /\ ReleaseAll
    /\ pc' = "exited"
    /\ outcome' = IF outcome = "running" THEN "ok" ELSE outcome
    /\ UNCHANGED <<startVars, acquired, initialized, listed,
                   function_declarations, queryVars, toolVars, otherVars>>

(***************************************************************************)
(* terminal_server.py: run_command.                                        *)
(***************************************************************************)
Commands == {"ls", "ls /nao-existe", "true", "exit 3"}
Outputs == {"", "saida\n", "erro\n"}
ReturnCodes == {0, 1, 127}
CmdExceptions == {[type |-> "FileNotFoundError", args |-> <<"[Errno 2] No such file or directory">>],
                  [type |-> "UnicodeDecodeError", args |-> <<"invalid start byte">>],
                  [type |-> "OSError", args |-> <<>>]}

NoException == [type |-> "", args |-> <<>>]
NoExecution == [kind |-> "none", stdout |-> "", stderr |-> "", returncode |-> 0,
                exc |-> NoException]
NoResult == [kind |-> "none", value |-> ""]

\* what subprocess.run(command, shell=True, cwd=..., capture_output=True,
\* text=True) can do: complete with captured text, or raise
Executions ==
    {[kind |-> "completed", stdout |-> o, stderr |-> e, returncode |-> rc,
      exc |-> NoException] : o \in Outputs, e \in Outputs, rc \in ReturnCodes}
    \cup {[kind |-> "raised", stdout |-> "", stderr |-> "", returncode |-> 0,
           exc |-> x] : x \in CmdExceptions}

\* variant: standard error is preferred
PyOrSecondFirst(a, b) == IF b # "" THEN b ELSE a

\* a or b, on str
PyOr(a, b) == IF a # "" THEN a ELSE b

\* the body of run_command, lines 26-37
run_command(ex) ==
    IF ex.kind = "completed"
    THEN [kind |-> "return", value |-> PyOr(ex.stdout, ex.stderr)]
    ELSE [kind |-> "return", value |-> ExcStr(ex.exc)]

(***************************************************************************)
(* Values of the variables a specification does not use.                   *)
(***************************************************************************)
SchemaIdle == schema = Scalar /\ cleaned = Scalar
ToolsIdle == produced = <<>> /\ mcp_tools = <<>> /\ gemini_tools = <<>>
CmdIdle ==
    /\ cmdPc = "idle" /\ command = "" /\ cmdResult = NoResult
    /\ execution = NoExecution
ClientIdle ==
    /\ program = "client" /\ apiKey = TRUE /\ argGiven = TRUE
    /\ outcome = "running" /\ genai_client = FALSE
    /\ exit_stack = <<>> /\ acquired = {}
    /\ released = [r \in Resources |-> 0]
    /\ initialized = FALSE /\ listed = FALSE /\ function_declarations = <<>>
    /\ rawLine = <<>> /\ query = <<>> /\ linesRead = 0 /\ parts = <<>>
    /\ idx = 1 /\ final_text = <<>> /\ contents = <<>> /\ modelCalls = 0
    /\ toolCalls = 0 /\ lastTool = NoTool /\ toolRaised = FALSE
    /\ chained = FALSE /\ pqResult = "none"

Init == ClientInit /\ SchemaIdle /\ ToolsIdle /\ CmdIdle

Next ==
    \/ MainCheckArgs
    \/ MCPClientInit
    \/ BuildLLM
    \/ ScriptCheckArgs
    \/ EnterStdio
    \/ EnterSession
    \/ Initialize
    \/ ListTools
    \/ ReadLine
    \/ ReadEOF
    \/ Dispatch
    \/ InspectText
    \/ ExecuteTool
    \/ Return
    \/ AInvoke
    \/ Cleanup
    \/ ExitContexts

Spec == Init /\ [][Next]_vars
(***************************************************************************)
(* clean_schema on its own.                                                *)
(***************************************************************************)
InitSchema ==
    /\ ClientIdle /\ ToolsIdle /\ CmdIdle
    /\ pc = "clean_schema"
    /\ schema \in Schemas(MaxDepth)
    /\ cleaned = Scalar

\* cleaned = clean_schema(schema): a dict is changed in place and returned
CleanSchemaCall ==
    /\ pc = "clean_schema"
    /\ cleaned' = clean_schema(schema)
    /\ schema' = clean_schema(schema)
    /\ pc' = "cleaned"
    /\ UNCHANGED <<startVars, outcome, connVars, queryVars, toolVars, cmdVars>>

NextSchema == CleanSchemaCall

SpecSchema == InitSchema /\ [][NextSchema]_vars

(***************************************************************************)
(* convert_mcp_tools_to_gemini on its own.                                 *)
(***************************************************************************)
ToolDescriptors ==
    {[name |-> n, description |-> d, inputSchema |-> js] :
        n \in ToolNames, d \in Descriptions, js \in Schemas(ToolSchemaDepth)}

InitTools ==
    /\ ClientIdle /\ SchemaIdle /\ CmdIdle
    /\ pc = "convert"
    /\ produced \in SeqsUpTo(ToolDescriptors, MaxTools)
    /\ mcp_tools = produced
    /\ gemini_tools = <<>>

\* gemini_tools = convert_mcp_tools_to_gemini(mcp_tools)
ConvertCall ==
    /\ pc = "convert"
    /\ gemini_tools' = convert_mcp_tools_to_gemini(mcp_tools)
    /\ mcp_tools' = ToolsAfterConvert(mcp_tools)
    /\ pc' = "converted"
    /\ UNCHANGED <<startVars, outcome, connVars, queryVars, produced,
                   schemaVars, cmdVars>>

NextTools == ConvertCall

SpecTools == InitTools /\ [][NextTools]_vars

(***************************************************************************)
(* The terminal server answering run_command requests.                     *)
(***************************************************************************)
InitCmd ==
    /\ ClientIdle /\ SchemaIdle /\ ToolsIdle /\ CmdIdle
    /\ pc = "server"

\* one call of the tool
RunCommandCall ==
    /\ cmdPc = "idle"
    /\ \E c \in Commands, ex \in Executions :
          /\ command' = c
          /\ execution' = ex
          /\ cmdResult' = run_command(ex)
          /\ cmdPc' = IF run_command(ex).kind = "return" THEN "returned" ELSE "raised"
    /\ UNCHANGED <<clientVars, schemaVars, toolVars>>

\* mcp.run: the server waits for the next request
ServeNext ==
    /\ cmdPc = "returned"
    /\ cmdPc' = "idle"
    /\ UNCHANGED <<command, execution, cmdResult, clientVars, schemaVars, toolVars>>

NextCmd == RunCommandCall \/ ServeNext

SpecCmd == InitCmd /\ [][NextCmd]_vars
(***************************************************************************)
(* Properties.                                                             *)
(***************************************************************************)
InStack(r) == \E i \in 1..Len(exit_stack) : exit_stack[i] = r

\* number of tool-call parts among the first n parts of the first response
CallsAmong(ps, n) == Cardinality({i \in 1..n : ps[i].function_call.t = "FunctionCall"})

\* process_query has not raised
NotRaised == pqResult \in {"none", "returned"}

\* C1: whenever session.call_tool raises, the tool-result turn that is
\* resubmitted carries str(e) as its content, and process_query returns an
\* answer instead of raising to its caller.
C1_ToolErrorGoesToModel ==
    (program = "client" /\ toolRaised) =>
        /\ lastTool.kind = "raise" =>
              /\ Len(contents) = 3
              /\ contents[3].role = "tool"
              /\ contents[3].parts[1].function_response.response
                     = [key |-> "error", value |-> ExcStr(lastTool.exc)]
        /\ NotRaised

\* C2: after a tool invocation that succeeded, the request resubmitted to
\* the model holds exactly three turns: the user turn, the tool-call part
\* just handled, and the tool-result turn of that same call; for every
\* tool-call part of the first response.
C2_ResubmitThreeTurns ==
    (program = "client" /\ idx > 1 /\ Truthy(parts[idx - 1].function_call)
        /\ lastTool.kind = "result") =>
        /\ Len(contents) = 3
        /\ contents[1].role = "user"
        /\ contents[1].parts = <<[text |-> query]>>
        /\ contents[2] = parts[idx - 1]
        /\ contents[3].role = "tool"
        /\ Len(contents[3].parts) = 1
        /\ contents[3].parts[1].function_response.name = parts[idx - 1].function_call.v
        /\ contents[3].parts[1].function_response.response
               = [key |-> "result", value |-> lastTool.content]

C2_Witness ==
    /\ program = "client" /\ idx = 3
    /\ Truthy(parts[1].function_call) /\ Truthy(parts[2].function_call)
    /\ parts[1] # parts[2]
    /\ lastTool.kind = "result"

\* C3: the connection resources are released at most once at any time, only
\* after they were acquired, and when the program has ended, by whatever
\* path, every resource it acquired has been released exactly once.
C3_ReleasedExactlyOnce ==
    /\ \A r \in Resources :
          /\ released[r] <= 1
          /\ released[r] = 1 => r \in acquired
          /\ InStack(r) => (r \in acquired /\ released[r] = 0)
    /\ pc = "exited" =>
          /\ exit_stack = <<>>
          /\ \A r \in acquired : released[r] = 1

C3_Witness ==
    /\ program = "client" /\ pc = "exited"
    /\ pqResult = "TypeError"
    /\ acquired = Resources
    /\ \A r \in Resources : released[r] = 1

\* a line is "quit" up to case and surrounding whitespace
IsQuitLine(l) ==
    \E a \in 1..Len(l) :
        /\ a + 3 <= Len(l)
        /\ l[a] \in {"q", "Q"} /\ l[a + 1] \in {"u", "U"}
        /\ l[a + 2] \in {"i", "I"} /\ l[a + 3] \in {"t", "T"}
        /\ \A i \in 1..Len(l) : (i < a \/ i > a + 3) => l[i] \in Whitespace

C4_Step ==
    (linesRead' = linesRead + 1) =>
        /\ IsQuitLine(rawLine') => (pc' \in {"cleanup", "exit_ctx"} /\ modelCalls' = 0)
        /\ ~IsQuitLine(rawLine') => pc' \in {"dispatch", "ainvoke"}
        /\ linesRead > 0 =>
              /\ ~IsQuitLine(rawLine)
              /\ modelCalls >= 1
              /\ contents[1] = [role |-> "user", parts |-> <<[text |-> Strip(rawLine)]>>]

C4_State ==
    linesRead > 0 =>
        /\ IsQuitLine(rawLine) =>
              (modelCalls = 0 /\ pc \in {"cleanup", "exit_ctx", "exited"})
        /\ (~IsQuitLine(rawLine) /\ pc \notin {"dispatch", "ainvoke"}) =>
              modelCalls >= 1

\* C4: a line that is "quit" up to case and surrounding whitespace ends the
\* loop and no request goes to the model for it; any other line, the empty
\* one included, goes to the model as a query before the next line is read.
C4_QuitEndsLoop == [](C4_State) /\ [][C4_Step]_vars

C4_Witness ==
    /\ linesRead = 2
    /\ rawLine = <<"\t", "Q", "u", "i", "t", " ">>
    /\ modelCalls = 0
    /\ pc = "exited" /\ outcome = "ok"

\* C5: with the API key or the script argument missing, start-up fails
\* before the child process is launched, before any connection and before
\* any request to the model, in both programs.
C5_NoLaunchWithoutConfig ==
    (~apiKey \/ ~argGiven) =>
        /\ acquired = {}
        /\ modelCalls = 0
        /\ toolCalls = 0
        /\ ~initialized
        /\ pc = "exited" => outcome \in {"exit_1", "ValueError", "credentials_error"}

RECURSIVE HasTitle(_)
HasTitle(s) ==
    /\ IsDict(s)
    /\ \/ "title" \in DOMAIN s.m
       \/ \E key \in DOMAIN s.m : HasTitle(s.m[key])

\* C6: the result of clean_schema holds no "title" key, neither at the top
\* nor in any mapping nested below it.
C6_NoTitleAnywhere == pc = "cleaned" => ~HasTitle(cleaned)

\* C7: for N Tool Descriptors the conversion returns N entries, each with
\* exactly one Function Declaration, in the order of the input, the i-th
\* carrying the i-th descriptor's name and description.
C7_OneDeclarationPerTool ==
    pc = "converted" =>
        /\ Len(gemini_tools) = Len(produced)
        /\ \A i \in 1..Len(produced) :
              /\ Len(gemini_tools[i].function_declarations) = 1
              /\ gemini_tools[i].function_declarations[1].name = produced[i].name
              /\ gemini_tools[i].function_declarations[1].description
                     = produced[i].description

C7_Witness ==
    /\ pc = "converted"
    /\ Len(produced) = MaxTools
    /\ produced[1].name # produced[2].name
    /\ produced[1].description # produced[2].description
    /\ Len(gemini_tools) = MaxTools

\* C8: run_command hands back the captured standard output when it is not
\* empty, else the captured standard error, else the empty string; when the
\* execution raises it hands back str(e), and it never raises.
C8_OutputOrErrorText ==
    /\ cmdPc # "raised"
    /\ cmdPc = "returned" =>
          /\ cmdResult.kind = "return"
          /\ (execution.kind = "completed" /\ execution.stdout # "") =>
                cmdResult.value = execution.stdout
          /\ (execution.kind = "completed" /\ execution.stdout = ""
                /\ execution.stderr # "") =>
                cmdResult.value = execution.stderr
          /\ (execution.kind = "completed" /\ execution.stdout = ""
                /\ execution.stderr = "") =>
                cmdResult.value = ""
          /\ execution.kind = "raised" =>
                cmdResult.value = ExcStr(execution.exc)

C8_Witness ==
    /\ cmdPc = "returned"
    /\ execution.kind = "completed"
    /\ execution.stdout = "" /\ execution.stderr = "erro\n"
    /\ execution.returncode = 127
    /\ cmdResult.value = "erro\n"

\* C9: when the reply to the resubmitted turns is itself a tool call, that
\* call is not followed (no call_tool and no model request is made for it)
\* and process_query does not raise.
C9_SecondCallNotFollowed ==
    (program = "client" /\ chained) =>
        /\ toolCalls = CallsAmong(parts, idx - 1)
        /\ modelCalls = 1 + toolCalls
        /\ NotRaised

C10_Step ==
    /\ (initialized' /\ ~initialized) => InStack("session")
    /\ (listed' /\ ~listed) => (initialized /\ InStack("session"))
    /\ (toolCalls' > toolCalls) =>
          /\ initialized /\ listed
          /\ InStack("session")
          /\ released["session"] = 0

\* C10: initialize completes before the tools are listed, the listing
\* completes before any tool is invoked, and call_tool is only issued on an
\* initialized session that has not been released.
C10_HandshakeBeforeCalls == [][C10_Step]_vars

C10_Witness ==
    /\ pc = "exited"
    /\ toolCalls >= 1
    /\ initialized /\ listed
    /\ released["session"] = 1

\* C11: building the Function Declarations leaves every Tool Descriptor,
\* its input schema and all nested mappings included, exactly as the child
\* process produced it.
C11_DescriptorsUnchanged == pc = "converted" => mcp_tools = produced
====
